---- MODULE Spec2Model ----
\* A state-machine model of src/mcp_mint_server.py: one invocation of call_tool,
\* the tool it dispatches to, every HTTP GET the tool sends to the upstream API
\* and the text payload handed back.
EXTENDS Integers, Sequences, FiniteSets, TLC

VARIABLES
    apiKey,     \* MINT_API_KEY, read once at import time ("" when the variable is unset)
    name,       \* call_tool's name argument
    arguments,  \* call_tool's arguments record
    up,         \* what the upstream API answers during this invocation
    pc,         \* the position of the invocation
    requests,   \* every HTTP GET sent so far, in order, with its outcome
    gdt,        \* locals of get_domains_and_topics
    vs,         \* locals of get_visibility_scores
    cit,        \* locals of get_citations
    ms,         \* locals of get_visibility_monthly_summary
    result      \* what call_tool handed back to its caller

vars == <<apiKey, name, arguments, up, pc, requests, gdt, vs, cit, ms, result>>

\* ------------------------------------------------------------------ bounds

MaxDomains == 3
MaxTopicsPerDomain == 2
MaxModels == 2
MaxPoints == 2
MaxItems == 2
MaxSummaryTopics == 9

\* ------------------------------------------------------------------ values

None == "None"
Absent == "<absent>"

Min(a, b) == IF a <= b THEN a ELSE b

Range(s) == {s[k] : k \in 1..Len(s)}

SeqsUpTo(S, n) == UNION {[1..k -> S] : k \in 0..n}

RECURSIVE Concat(_)
Concat(ss) == IF ss = <<>> THEN <<>> ELSE Head(ss) \o Concat(Tail(ss))

\* A Python dict is a sequence of <<key, value>> pairs with distinct keys, in
\* insertion order: assigning to a key that is present replaces its value in place.
DictKeys(d) == [k \in 1..Len(d) |-> d[k][1]]
DictHas(d, key) == \E k \in 1..Len(d) : d[k][1] = key
DictGet(d, key) == d[CHOOSE k \in 1..Len(d) : d[k][1] = key][2]
DictSet(d, key, val) ==
    IF DictHas(d, key)
    THEN [k \in 1..Len(d) |-> IF d[k][1] = key THEN <<key, val>> ELSE d[k]]
    ELSE Append(d, <<key, val>>)

\* ------------------------------------------------------------------ exceptions

\* The classes caught by an "except Exception" clause.
ExceptionClasses == {"RuntimeError", "HTTPStatusError", "TimeoutException", "TypeError",
                     "ValueError", "AttributeError"}

\* What one HTTP GET can end in: a 2xx answer, a non-2xx status (raise_for_status),
\* or a transport failure raised by the client (a timeout, whose message is empty).
HttpFailures == {"HTTPStatusError", "TimeoutException"}
HttpOutcomes == {"ok"} \cup HttpFailures

Exc(cls, msg) == [cls |-> cls, msg |-> msg]

NoException == Exc("none", "")

\* The exception a GET that ends in `outcome` raises in fetch_api.
HttpError(outcome) ==
    IF outcome = "HTTPStatusError" THEN Exc(outcome, "Server error '500' for url")
    ELSE IF outcome = "TimeoutException" THEN Exc(outcome, "")
    ELSE NoException

\* ------------------------------------------------------------------ fetch_api

\* GET {MINT_BASE_URL}{path}?{params}: the endpoint with the ids in its path (0: none).
\* fetch_api_retry is a fetch_api that sends a failed GET a second time;
\* fetch_api_unchecked one that does not look at the credential.
Path(ep, domainId, topicId) == [ep |-> ep, domainId |-> domainId, topicId |-> topicId]

Request(path, params, outcome) == [path |-> path, params |-> params, outcome |-> outcome]

\* fetch_api(path, params) when the GET, if one is sent, ends in `outcome`:
\* the exception raised (NoException when the JSON body is returned) and the
\* requests put on the wire.
fetch_api_retry(path, params, outcome) ==
    IF apiKey = ""
    THEN [raised |-> Exc("RuntimeError", "MINT_API_KEY environment variable is required"),
          sent   |-> <<>>]
    ELSE [raised |-> HttpError(outcome),
          sent   |-> IF outcome \in HttpFailures
                     THEN <<Request(path, params, outcome), Request(path, params, outcome)>>
                     ELSE <<Request(path, params, outcome)>>]

fetch_api_unchecked(path, params, outcome) ==
    [raised |-> HttpError(outcome),
     sent   |-> <<Request(path, params, outcome)>>]

fetch_api(path, params, outcome) ==
    IF apiKey = ""
    THEN [raised |-> Exc("RuntimeError", "MINT_API_KEY environment variable is required"),
          sent   |-> <<>>]
    ELSE [raised |-> HttpError(outcome),
          sent   |-> <<Request(path, params, outcome)>>]

NoParams == [startDate |-> Absent, endDate |-> Absent, models |-> Absent, kind |-> "plain"]

\* ------------------------------------------------------------------ call_tool

ToolNames == {"get_domains_and_topics", "get_visibility_scores", "get_citations",
              "get_visibility_monthly_summary"}

TextContent(text) == [type |-> "text", text |-> text]

NoResult == [returned |-> <<>>, raised |-> NoException, done |-> FALSE]

\* return [TextContent(type="text", text=json.dumps(res, default=str))]
call_tool_return(res) ==
    [returned |-> <<TextContent([json |-> res])>>, raised |-> NoException, done |-> TRUE]

\* A narrower handler: only the ValueError of the dispatch is caught.
call_tool_except_narrow(e) ==
    IF e.cls = "ValueError"
    THEN [returned |-> <<TextContent([error |-> <<"Error: ", e.msg>>])>>,
          raised |-> NoException, done |-> TRUE]
    ELSE [returned |-> <<>>, raised |-> e, done |-> TRUE]

\* except Exception as e: return [TextContent(type="text", text=f"Error: {str(e)}")]
call_tool_except(e) ==
    IF e.cls \in ExceptionClasses
    THEN [returned |-> <<TextContent([error |-> <<"Error: ", e.msg>>])>>,
          raised |-> NoException, done |-> TRUE]
    ELSE [returned |-> <<>>, raised |-> e, done |-> TRUE]

\* A required fetch wrapped like the per-model ones: the failure is swallowed and the
\* tool goes on with an empty answer.
required_fetch_except_swallow(e) == TRUE

\* global_data = await fetch_api(...) stands outside any try block: no exception is handled.
required_fetch_except(e) == FALSE

\* An exception that leaves the dispatched tool ends the invocation in call_tool's handler.
Raise(e) ==
    /\ result' = call_tool_except(e)
    /\ pc' = "done"

Return(res) ==
    /\ result' = call_tool_return(res)
    /\ pc' = "done"

\* ------------------------------------------------------------------ upstream catalog

\* d.get("displayName", d.get("name", "Unknown"))
DisplayName(rec) ==
    IF rec.displayName # Absent THEN rec.displayName
    ELSE IF rec.name # Absent THEN rec.name
    ELSE "Unknown"

DomainShapes == {[displayName |-> "IBIS", name |-> "ibis"],
                 [displayName |-> Absent, name |-> "Mercure"]}

\* Upstream ids are unique: domain k has id k, its j-th topic has id 100 * k + j.
DomainRec(k, shape) == [id |-> k, displayName |-> shape.displayName, name |-> shape.name]
TopicRec(k, j) == [id |-> 100 * k + j, displayName |-> IF j % 2 = 1 THEN "FR" ELSE "UK",
                   name |-> "topic"]

\* The answers of the upstream API: /domains, /domains/{id}/topics (by position in
\* domains), and the fields of the /visibility/aggregated answer without a models filter.
NoUpstream ==
    [domains |-> <<>>, topics |-> <<>>,
     availableModels |-> <<>>, chartData |-> <<>>,
     topDomains |-> <<>>, topCitedUrls |-> <<>>,
     topDomainsOverTime |-> <<>>, topUrlsOverTime |-> <<>>,
     reports |-> <<>>, outcomes |-> HttpOutcomes]

\* Every catalog of n domains with at most `most` topics each.
Catalogs(n, most) ==
    {[NoUpstream EXCEPT
        !.domains = [k \in 1..n |-> DomainRec(k, sh[k])],
        !.topics  = [k \in 1..n |-> [j \in 1..len[k] |-> TopicRec(k, j)]]] :
        sh \in [1..n -> DomainShapes], len \in [1..n -> 0..most]}

\* ------------------------------------------------------------------ get_domains_and_topics

NoGdt == [domains |-> <<>>, all_topics |-> <<>>, mapping |-> <<>>, i |-> 0]

MappingKey(d_name, t_name) == <<d_name, " > ", t_name>>

\* The body of the "for topic in topics" loop, applied to every topic of one domain.
RECURSIVE AddTopics(_, _, _)
AddTopics(acc, domain, topics) ==
    IF topics = <<>> THEN acc
    ELSE LET topic  == Head(topics)
             d_id   == domain.id
             d_name == DisplayName(domain)
             t_id   == topic.id
             t_name == DisplayName(topic)
         IN AddTopics(
                [acc EXCEPT
                    !.all_topics = Append(@, [id |-> t_id, name |-> t_name,
                                              domainId |-> d_id, domainName |-> d_name]),
                    !.mapping = DictSet(@, MappingKey(d_name, t_name),
                                        [domainId |-> d_id, topicId |-> t_id])],
                domain, Tail(topics))

\* A loop without the try block: no exception is handled.
gdt_except_missing(e) == FALSE

\* except Exception: continue -- whether the handler takes the exception
gdt_except(e) == e.cls \in ExceptionClasses

GdtResult(g) ==
    [status |-> "success",
     data |-> [domains |-> g.domains, topics |-> g.all_topics, mapping |-> g.mapping]]

\* domains = await fetch_api("/domains")
GdtFetchDomains ==
    /\ pc = "gdt_domains"
    /\ \E o \in up.outcomes :
        LET f == fetch_api(Path("/domains", 0, 0), NoParams, o) IN
        /\ requests' = requests \o f.sent
        /\ IF f.raised # NoException
           THEN Raise(f.raised) /\ UNCHANGED gdt
           ELSE /\ gdt' = [domains |-> up.domains, all_topics |-> <<>>, mapping |-> <<>>, i |-> 1]
                /\ pc' = "gdt_topics"
                /\ UNCHANGED result
    /\ UNCHANGED <<apiKey, name, arguments, up, vs, cit, ms>>

\* One iteration of "for domain in domains".
GdtFetchTopics ==
    /\ pc = "gdt_topics"
    /\ gdt.i <= Len(gdt.domains)
    /\ \E o \in up.outcomes :
        LET domain == gdt.domains[gdt.i]
            f == fetch_api(Path("/domains/{d_id}/topics", domain.id, 0), NoParams, o) IN
        /\ requests' = requests \o f.sent
        /\ IF f.raised = NoException
           THEN /\ gdt' = [AddTopics(gdt, domain, up.topics[gdt.i]) EXCEPT !.i = @ + 1]
                /\ UNCHANGED <<pc, result>>
           ELSE IF gdt_except(f.raised)
                THEN gdt' = [gdt EXCEPT !.i = @ + 1] /\ UNCHANGED <<pc, result>>
                ELSE Raise(f.raised) /\ UNCHANGED gdt
    /\ UNCHANGED <<apiKey, name, arguments, up, vs, cit, ms>>

\* return {"status": "success", "data": {...}} to call_tool
GdtReturn ==
    /\ pc = "gdt_topics"
    /\ gdt.i > Len(gdt.domains)
    /\ name = "get_domains_and_topics"
    /\ Return(GdtResult(gdt))
    /\ UNCHANGED <<apiKey, name, arguments, up, requests, gdt, vs, cit, ms>>

\* ------------------------------------------------------------------ upstream citations

AbsentNum == -1

\* item.get(a, item.get(b, default))
Get2(first, second, absent, default) ==
    IF first # absent THEN first ELSE IF second # absent THEN second ELSE default

DomainItems == {[domain |-> "a.com", linkDomain |-> Absent, count |-> 5, citationCount |-> AbsentNum],
                [domain |-> Absent, linkDomain |-> "b.com", count |-> AbsentNum, citationCount |-> 3]}

UrlItems == {[url |-> "a.com/x", link |-> Absent, domain |-> "a.com", linkDomain |-> Absent,
              count |-> 4, citationCount |-> AbsentNum]}

\* The rest of an answer: the cited urls and the two per-date breakdowns.
UrlChoices ==
    LET url == CHOOSE it \in UrlItems : TRUE IN
    {[topCitedUrls |-> <<>>, topDomainsOverTime |-> <<>>, topUrlsOverTime |-> <<>>],
     [topCitedUrls |-> <<url>>,
      topDomainsOverTime |-> <<[date |-> "2026-01-13", domains |-> <<<<"a.com", 2>>, <<"b.com", 1>>>>],
                              [date |-> Absent, domains |-> <<<<"a.com", 1>>>>]>>,
      topUrlsOverTime |-> <<[date |-> "2026-01-13", urls |-> <<<<"a.com/x", 2>>>>]>>],
     [topCitedUrls |-> <<url, url>>, topDomainsOverTime |-> <<>>, topUrlsOverTime |-> <<>>]}

RECURSIVE Reverse(_)
Reverse(s) == IF s = <<>> THEN <<>> ELSE Append(Reverse(Tail(s)), Head(s))

\* The list a models=m answer carries where the unfiltered answer carries `list`.
ModelList(list, m) ==
    IF m = "gpt-5.1" THEN Reverse(list)
    ELSE IF m = "sonar-pro" /\ list # <<>> THEN Tail(list)
    ELSE list

\* ------------------------------------------------------------------ upstream visibility

ModelLabels == {"GLOBAL", "gpt-5.1", "sonar-pro"}

\* The answer to a models=m request differs from the unfiltered one by a per-model shift.
ModelOffset(m) == IF m = "gpt-5.1" THEN 1 ELSE IF m = "sonar-pro" THEN 2 ELSE 0

\* entry["competitors"]: a dict from competitor name to score.
CompetitorDicts == {<<<<"Booking", 30>>>>, <<<<"Booking", 0>>, <<"Accor", -5>>>>}

ChartEntries == {[date |-> d, brand |-> 50, competitors |-> c] :
                    d \in {"2026-01-13", "2026-01-14"}, c \in CompetitorDicts}

\* The body of a /visibility/aggregated answer: of a models=m request, and of the
\* request without a models filter (global_data). Keys the answer lacks read as their
\* .get defaults.
ModelData(m) ==
    [availableModels |-> up.availableModels,
     chartData |-> [k \in 1..Len(up.chartData) |->
                      [up.chartData[k] EXCEPT !.brand = @ + ModelOffset(m)]],
     topDomains |-> ModelList(up.topDomains, m),
     topCitedUrls |-> ModelList(up.topCitedUrls, m),
     topDomainsOverTime |-> ModelList(up.topDomainsOverTime, m),
     topUrlsOverTime |-> ModelList(up.topUrlsOverTime, m),
     totalPromptsTested |-> 10, totalAnswers |-> 20,
     totalCitations |-> 100 + ModelOffset(m), reportCount |-> AbsentNum]

GlobalData == ModelData("GLOBAL")

\* An answer {} : every key reads as its default.
EmptyData ==
    [availableModels |-> <<>>, chartData |-> <<>>, topDomains |-> <<>>, topCitedUrls |-> <<>>,
     topDomainsOverTime |-> <<>>, topUrlsOverTime |-> <<>>,
     totalPromptsTested |-> AbsentNum, totalAnswers |-> AbsentNum,
     totalCitations |-> AbsentNum, reportCount |-> AbsentNum]

\* ------------------------------------------------------------------ get_visibility_scores

NoVs == [startDate |-> None, endDate |-> None, global_data |-> EmptyData,
         available_models |-> <<>>, by_model_data |-> <<>>, i |-> 0]

Today == "today"
\* (date.today() - timedelta(days=n)).strftime("%Y-%m-%d"), for the periods of the tools
DaysBefore(n) == IF n = 365 THEN "today-365d" ELSE "today-90d"

\* if not startDate or not endDate: both are replaced by the default period.
DefaultDates(startDate, endDate, days) ==
    IF startDate = None \/ endDate = None
    THEN [startDate |-> DaysBefore(days), endDate |-> Today]
    ELSE [startDate |-> startDate, endDate |-> endDate]

VsBaseParams(v) ==
    [startDate |-> v.startDate, endDate |-> v.endDate, models |-> Absent, kind |-> "scores"]

AggregatedPath == Path("/domains/{domainId}/topics/{topicId}/visibility/aggregated",
                       arguments.domainId, arguments.topicId)

\* for c_name, c_score in entry.get("competitors", {}).items(): one row each
CompetitorRows(d, competitors, model_name) ==
    [k \in 1..Len(competitors) |->
        [Date |-> d, EntityName |-> competitors[k][1], EntityType |-> "Competitor",
         Score |-> competitors[k][2], Model |-> model_name]]

\* add_rows(data, model_name): the rows appended to dataset
RECURSIVE add_rows(_, _)
add_rows(chartData, model_name) ==
    IF chartData = <<>> THEN <<>>
    ELSE LET entry == Head(chartData)
             d == entry.date
         IN <<[Date |-> d, EntityName |-> "Brand", EntityType |-> "Brand",
               Score |-> entry.brand, Model |-> model_name]>>
            \o CompetitorRows(d, entry.competitors, model_name)
            \o add_rows(Tail(chartData), model_name)

\* for m, data in by_model_data.items(): add_rows(data, m)
RECURSIVE AddModelRows(_)
AddModelRows(by_model) ==
    IF by_model = <<>> THEN <<>>
    ELSE add_rows(Head(by_model)[2].chartData, Head(by_model)[1]) \o AddModelRows(Tail(by_model))

VsResult(v) ==
    [status |-> "success",
     data |-> [dataset |-> add_rows(v.global_data.chartData, "GLOBAL")
                           \o AddModelRows(v.by_model_data),
               metadata |-> [models |-> <<"GLOBAL">> \o v.available_models]]]

\* A loop without the try block: no exception is handled.
vs_except_missing(e) == FALSE

\* except: pass -- the bare handler takes every exception
vs_except(e) == TRUE

\* The default dates, base_params and the GLOBAL fetch.
VsFetchGlobal ==
    /\ pc = "vs_global"
    /\ \E o \in up.outcomes :
        LET dates == DefaultDates(arguments.startDate, arguments.endDate, 365)
            v0 == [NoVs EXCEPT !.startDate = dates.startDate, !.endDate = dates.endDate]
            f == fetch_api(AggregatedPath, VsBaseParams(v0), o) IN
        /\ requests' = requests \o f.sent
        /\ IF f.raised # NoException /\ ~required_fetch_except(f.raised)
           THEN Raise(f.raised) /\ vs' = v0
           ELSE LET global_data == IF f.raised = NoException THEN GlobalData ELSE EmptyData IN
                /\ vs' = [v0 EXCEPT !.global_data = global_data,
                                    !.available_models = global_data.availableModels,
                                    !.i = 1]
                /\ pc' = "vs_models"
                /\ UNCHANGED result
    /\ UNCHANGED <<apiKey, name, arguments, up, gdt, cit, ms>>

\* One iteration of "for m in available_models".
VsFetchModel ==
    /\ pc = "vs_models"
    /\ vs.i >= 1 /\ vs.i <= Len(vs.available_models)
    /\ \E o \in up.outcomes :
        LET m == vs.available_models[vs.i]
            f == fetch_api(AggregatedPath, [VsBaseParams(vs) EXCEPT !.models = m], o) IN
        /\ requests' = requests \o f.sent
        /\ IF f.raised = NoException
           THEN /\ vs' = [vs EXCEPT !.by_model_data = DictSet(@, m, ModelData(m)),
                                    !.i = @ + 1]
                /\ UNCHANGED <<pc, result>>
           ELSE IF vs_except(f.raised)
                THEN vs' = [vs EXCEPT !.i = @ + 1] /\ UNCHANGED <<pc, result>>
                ELSE Raise(f.raised) /\ UNCHANGED vs
    /\ UNCHANGED <<apiKey, name, arguments, up, gdt, cit, ms>>

\* add_rows for GLOBAL and for each model of by_model_data, then the return to call_tool.
VsReturn ==
    /\ pc = "vs_models"
    /\ vs.i > Len(vs.available_models)
    /\ Return(VsResult(vs))
    /\ UNCHANGED <<apiKey, name, arguments, up, requests, gdt, vs, cit, ms>>

NoneValue == [none |-> TRUE]

\* ------------------------------------------------------------------ get_citations

NoCit == [startDate |-> None, endDate |-> None, global_data |-> EmptyData,
          available_models |-> <<>>, tasks |-> <<>>, model_results |-> <<>>]

\* The models argument: absent (None) or a string, held as the list models.split(",").
NoModels == [given |-> FALSE, tokens |-> <<>>]
ModelsString(tokens) == [given |-> TRUE, tokens |-> tokens]

\* if models: -- None and "" are falsy
Truthy(models) == models.given /\ models.tokens # <<"">>

\* m.strip()
Strip(token) ==
    IF token = " sonar-pro" THEN "sonar-pro"
    ELSE IF token = "gpt-5.1 " THEN "gpt-5.1"
    ELSE token

\* requested = [m.strip() for m in models.split(",")]
Requested(models) == [k \in 1..Len(models.tokens) |-> Strip(models.tokens[k])]

\* available_models = [m for m in available_models if m in requested]
FilterModels(available_models, models) ==
    IF Truthy(models)
    THEN SelectSeq(available_models, LAMBDA m : m \in Range(Requested(models)))
    ELSE available_models

CitBaseParams(c) ==
    [startDate |-> c.startDate, endDate |-> c.endDate, models |-> Absent, kind |-> "citations"]

\* One coroutine of a gather: not yet run, waiting for its GET, or returned.
Task(key) == [key |-> key, state |-> "new", req |-> 0]

Pending == [pending |-> TRUE]

\* asyncio.gather puts the value of the k-th awaitable at position k of its result.
gather_completion_order(results, k, value) ==
    LET free == CHOOSE j \in 1..Len(results) :
                    results[j] = Pending /\ \A h \in 1..(j - 1) : results[h] # Pending
    IN [results EXCEPT ![free] = value]

gather(results, k, value) == [results EXCEPT ![k] = value]

AllReturned(tasks) == \A k \in 1..Len(tasks) : tasks[k].state = "returned"

\* by_model = {m: d for m, d in model_results if d is not None}
RECURSIVE by_model(_)
by_model(model_results) ==
    IF model_results = <<>> THEN <<>>
    ELSE LET last == model_results[Len(model_results)]
             rest == by_model(SubSeq(model_results, 1, Len(model_results) - 1))
         IN IF last[2] # NoneValue THEN DictSet(rest, last[1], last[2]) ELSE rest

\* extract(data, model_name): the five lists of one answer
ExtractTopDomains(data, model_name) ==
    [i \in 1..Len(data.topDomains) |->
        LET item == data.topDomains[i] IN
        [Model |-> model_name,
         Domain |-> Get2(item.domain, item.linkDomain, Absent, ""),
         CitationCount |-> Get2(item.count, item.citationCount, AbsentNum, 0),
         Rank |-> i]]

ExtractTopUrls(data, model_name) ==
    [i \in 1..Len(data.topCitedUrls) |->
        LET item == data.topCitedUrls[i] IN
        [Model |-> model_name,
         Url |-> Get2(item.url, item.link, Absent, ""),
         Domain |-> Get2(item.domain, item.linkDomain, Absent, ""),
         CitationCount |-> Get2(item.count, item.citationCount, AbsentNum, 0),
         Rank |-> i]]

ExtractDomainsOt(data, model_name) ==
    Concat([e \in 1..Len(data.topDomainsOverTime) |->
        LET entry == data.topDomainsOverTime[e] IN
        [k \in 1..Len(entry.domains) |->
            [Model |-> model_name,
             Date |-> IF entry.date # Absent THEN entry.date ELSE "",
             Domain |-> entry.domains[k][1],
             Count |-> entry.domains[k][2]]]])

ExtractUrlsOt(data, model_name) ==
    Concat([e \in 1..Len(data.topUrlsOverTime) |->
        LET entry == data.topUrlsOverTime[e] IN
        [k \in 1..Len(entry.urls) |->
            [Model |-> model_name,
             Date |-> IF entry.date # Absent THEN entry.date ELSE "",
             Url |-> entry.urls[k][1],
             Count |-> entry.urls[k][2]]]])

ExtractMetrics(data, model_name) ==
    <<[Model |-> model_name,
       TotalPrompts |-> Get2(data.totalPromptsTested, AbsentNum, AbsentNum, 0),
       TotalAnswers |-> Get2(data.totalAnswers, AbsentNum, AbsentNum, 0),
       TotalCitations |-> Get2(data.totalCitations, AbsentNum, AbsentNum, 0),
       ReportCount |-> Get2(data.reportCount, AbsentNum, AbsentNum, 0)]>>

\* An enumerate that counts from 0.
extract_from_zero(data, model_name) ==
    [top_domains |-> [i \in 1..Len(data.topDomains) |->
                        [ExtractTopDomains(data, model_name)[i] EXCEPT !.Rank = i - 1]],
     top_urls |-> [i \in 1..Len(data.topCitedUrls) |->
                        [ExtractTopUrls(data, model_name)[i] EXCEPT !.Rank = i - 1]],
     domains_over_time |-> ExtractDomainsOt(data, model_name),
     urls_over_time |-> ExtractUrlsOt(data, model_name),
     global_metrics |-> ExtractMetrics(data, model_name)]

extract(data, model_name) ==
    [top_domains |-> ExtractTopDomains(data, model_name),
     top_urls |-> ExtractTopUrls(data, model_name),
     domains_over_time |-> ExtractDomainsOt(data, model_name),
     urls_over_time |-> ExtractUrlsOt(data, model_name),
     global_metrics |-> ExtractMetrics(data, model_name)]

AddExtract(all, ex) ==
    [top_domains |-> all.top_domains \o ex.top_domains,
     top_urls |-> all.top_urls \o ex.top_urls,
     domains_over_time |-> all.domains_over_time \o ex.domains_over_time,
     urls_over_time |-> all.urls_over_time \o ex.urls_over_time,
     global_metrics |-> all.global_metrics \o ex.global_metrics]

\* for m, data in by_model.items(): the five lists grow by extract(data, m)
RECURSIVE AddModelExtracts(_, _)
AddModelExtracts(all, bm) ==
    IF bm = <<>> THEN all
    ELSE AddModelExtracts(AddExtract(all, extract(Head(bm)[2], Head(bm)[1])), Tail(bm))

CitResult(c) ==
    LET bm == by_model(c.model_results)
        all == AddModelExtracts(extract(c.global_data, "GLOBAL"), bm)
    IN [status |-> "success",
        data |-> [top_domains |-> all.top_domains,
                  top_urls |-> all.top_urls,
                  domains_over_time |-> all.domains_over_time,
                  urls_over_time |-> all.urls_over_time,
                  global_metrics |-> all.global_metrics,
                  metadata |-> [models |-> <<"GLOBAL">> \o DictKeys(bm),
                                startDate |-> c.startDate,
                                endDate |-> c.endDate]]]

\* A fetch_model without the try block: no exception is handled.
fetch_model_except_missing(e) == FALSE

\* except Exception: return m, None
fetch_model_except(e) == e.cls \in ExceptionClasses

\* The default dates, base_params, the GLOBAL fetch, the models filter and the tasks list.
CitFetchGlobal ==
    /\ pc = "cit_global"
    /\ \E o \in up.outcomes :
        LET dates == DefaultDates(arguments.startDate, arguments.endDate, 90)
            c0 == [NoCit EXCEPT !.startDate = dates.startDate, !.endDate = dates.endDate]
            f == fetch_api(AggregatedPath, CitBaseParams(c0), o) IN
        /\ requests' = requests \o f.sent
        /\ IF f.raised # NoException /\ ~required_fetch_except(f.raised)
           THEN Raise(f.raised) /\ cit' = c0
           ELSE LET global_data == IF f.raised = NoException THEN GlobalData ELSE EmptyData
                    available == FilterModels(global_data.availableModels, arguments.models) IN
                /\ cit' = [c0 EXCEPT !.global_data = global_data,
                                     !.available_models = available,
                                     !.tasks = [k \in 1..Len(available) |-> Task(available[k])],
                                     !.model_results = [k \in 1..Len(available) |-> Pending]]
                /\ pc' = "cit_gather"
                /\ UNCHANGED result
    /\ UNCHANGED <<apiKey, name, arguments, up, gdt, vs, ms>>

\* The event loop runs the next new fetch_model(m) up to its await: either fetch_api
\* raises at once, or the GET is on the wire.
CitStart ==
    /\ pc = "cit_gather"
    /\ \E k \in 1..Len(cit.tasks) :
        /\ cit.tasks[k].state = "new"
        /\ \A j \in 1..(k - 1) : cit.tasks[j].state # "new"
        /\ LET m == cit.tasks[k].key
               f == fetch_api(AggregatedPath, [CitBaseParams(cit) EXCEPT !.models = m], "inflight") IN
           IF f.raised = NoException
           THEN /\ requests' = requests \o f.sent
                /\ cit' = [cit EXCEPT !.tasks[k].state = "inflight",
                                      !.tasks[k].req = Len(requests) + 1]
                /\ UNCHANGED <<pc, result>>
           ELSE IF fetch_model_except(f.raised)
                THEN /\ requests' = requests \o f.sent
                     /\ cit' = [cit EXCEPT !.tasks[k].state = "returned",
                                           !.model_results = gather(@, k, <<m, NoneValue>>)]
                     /\ UNCHANGED <<pc, result>>
                ELSE /\ requests' = requests \o f.sent
                     /\ Raise(f.raised)
                     /\ UNCHANGED cit
    /\ UNCHANGED <<apiKey, name, arguments, up, gdt, vs, ms>>

\* The GET of one fetch_model(m) ends, in any order among those on the wire.
CitSettle ==
    /\ pc = "cit_gather"
    /\ \E k \in 1..Len(cit.tasks), o \in up.outcomes :
        /\ cit.tasks[k].state = "inflight"
        /\ LET m == cit.tasks[k].key
               e == HttpError(o) IN
           /\ requests' = [requests EXCEPT ![cit.tasks[k].req].outcome = o]
           /\ IF e = NoException
              THEN /\ cit' = [cit EXCEPT !.tasks[k].state = "returned",
                                         !.model_results = gather(@, k, <<m, ModelData(m)>>)]
                   /\ UNCHANGED <<pc, result>>
              ELSE IF fetch_model_except(e)
                   THEN /\ cit' = [cit EXCEPT !.tasks[k].state = "returned",
                                              !.model_results = gather(@, k, <<m, NoneValue>>)]
                        /\ UNCHANGED <<pc, result>>
                   ELSE Raise(e) /\ UNCHANGED cit
    /\ UNCHANGED <<apiKey, name, arguments, up, gdt, vs, ms>>

\* gather has every value: by_model, the extraction and the return to call_tool.
CitReturn ==
    /\ pc = "cit_gather"
    /\ AllReturned(cit.tasks)
    /\ Return(CitResult(cit))
    /\ UNCHANGED <<apiKey, name, arguments, up, requests, gdt, vs, cit, ms>>

\* ------------------------------------------------------------------ get_visibility_monthly_summary

\* One more call per batch.
batch_size_larger == 8 + 1

batch_size == 8

NoneNum == -999999

NoMs == [startDate |-> None, endDate |-> None, all_topics |-> <<>>, i |-> 0,
         tasks |-> <<>>, results |-> <<>>, all_results |-> <<>>]

\* if brand_filter: / if market_filter: / if models: / if error: -- None and "" are falsy
TruthyStr(x) == x # None /\ x # ""

\* a.upper() in b.upper(), for the filters and names of the model
UpperContains(a, b) ==
    \/ <<a, b>> \in {<<"ibis", "IBIS">>, <<"fr", "FR">>, <<"r", "FR">>, <<"r", "Mercure">>}
    \/ a = b

FilterTopics(all_topics, brand_filter, market_filter) ==
    LET by_brand == IF TruthyStr(brand_filter)
                    THEN SelectSeq(all_topics, LAMBDA t : UpperContains(brand_filter, t.domainName))
                    ELSE all_topics
    IN IF TruthyStr(market_filter)
       THEN SelectSeq(by_brand, LAMBDA t : UpperContains(market_filter, t.name))
       ELSE by_brand

\* params = {"limit": 100, "startDate": ..., "endDate": ...}; params["models"] = models if models
MsParams(m) ==
    [startDate |-> m.startDate, endDate |-> m.endDate,
     models |-> IF Truthy(arguments.models) THEN arguments.models ELSE NoModels,
     kind |-> "summary"]

VisibilityPath(topic) ==
    Path("/domains/{domainId}/topics/{id}/visibility", topic.domainId, topic.id)

\* The /visibility answer for one topic: its reports, each with an averageScore
\* (a whole number, or NoneNum for null).
ReportsOf(topicId) ==
    IF DictHas(up.reports, topicId) THEN DictGet(up.reports, topicId) ELSE <<>>

RECURSIVE Sum(_)
Sum(s) == IF s = <<>> THEN 0 ELSE Head(s) + Sum(Tail(s))

\* round(total / n, 1) in tenths, for a whole-number total: to the nearest tenth,
\* a tie going to the even tenth.
RoundTenths(total, n) ==
    LET q == (10 * total) \div n
        r == (10 * total) % n
    IN IF 2 * r < n THEN q
       ELSE IF 2 * r > n THEN q + 1
       ELSE IF q % 2 = 0 THEN q ELSE q + 1

\* fetch_one's value: (topic, data, None) or (topic, None, str(e))
FetchOneOk(topic) == [topic |-> topic, data |-> [reports |-> ReportsOf(topic.id)], error |-> None]
FetchOneFailed(topic, e) == [topic |-> topic, data |-> NoneValue, error |-> e.msg]

\* A fetch_one without the try block: no exception is handled.
fetch_one_except_missing(e) == FALSE

\* except Exception as e: return topic, None, str(e)
fetch_one_except(e) == e.cls \in ExceptionClasses

\* The row of one gathered result; data.get on None raises AttributeError.
RowRaises(res) == ~TruthyStr(res.error) /\ res.data = NoneValue

RowOf(res) ==
    IF TruthyStr(res.error)
    THEN [brand |-> res.topic.domainName, topic |-> res.topic.name,
          avg_score |-> NoneNum, data_points |-> 0, error |-> res.error]
    ELSE LET scores == SelectSeq(res.data.reports, LAMBDA x : x # NoneNum)
             avg == IF scores # <<>> THEN RoundTenths(Sum(scores), Len(scores)) ELSE NoneNum
         IN [brand |-> res.topic.domainName, topic |-> res.topic.name,
             avg_score |-> avg, data_points |-> Len(scores), error |-> None]

\* Python's order on the brand strings of the model (by code point).
StrRank(str) ==
    IF str = "?" THEN 0 ELSE IF str = "IBIS" THEN 1 ELSE IF str = "Mercure" THEN 2 ELSE 3

\* r["avg_score"] or -1, in tenths: None and 0.0 are falsy
OrMinusOne(avg) == IF avg = NoneNum \/ avg = 0 THEN -10 ELSE avg

\* key=lambda r: (r["brand"], -(r["avg_score"] or -1)) -- whether key(a) < key(b)
SortKeyLess(a, b) ==
    \/ StrRank(a.brand) < StrRank(b.brand)
    \/ /\ StrRank(a.brand) = StrRank(b.brand)
       /\ -OrMinusOne(a.avg_score) < -OrMinusOne(b.avg_score)

\* list.sort is stable: a row goes before the first row whose key is greater.
InsertRow(sorted, r) ==
    LET later == {k \in 1..Len(sorted) : SortKeyLess(r, sorted[k])}
        at == IF later = {} THEN Len(sorted) + 1
              ELSE CHOOSE k \in later : \A j \in later : k <= j
    IN SubSeq(sorted, 1, at - 1) \o <<r>> \o SubSeq(sorted, at, Len(sorted))

RECURSIVE SortRows(_)
SortRows(rows) ==
    IF rows = <<>> THEN <<>>
    ELSE InsertRow(SortRows(SubSeq(rows, 1, Len(rows) - 1)), rows[Len(rows)])

score_emoji(avg) ==
    IF avg = NoneNum THEN "warning"
    ELSE IF avg >= 600 THEN "green"
    ELSE IF avg >= 400 THEN "yellow"
    ELSE IF avg >= 200 THEN "orange"
    ELSE "red"

\* One line of the table per row; the brand is blank when it repeats the previous row's.
TableLines(rows) ==
    [k \in 1..Len(rows) |->
        LET r == rows[k] IN
        [brand_d |-> IF k > 1 /\ rows[k - 1].brand = r.brand THEN "" ELSE r.brand,
         topic |-> r.topic,
         score_str |-> IF r.avg_score # NoneNum THEN <<"**", r.avg_score, "**">> ELSE <<"-">>,
         data_points |-> r.data_points,
         status |-> IF ~TruthyStr(r.error) THEN <<score_emoji(r.avg_score)>>
                    ELSE <<"x", r.error>>]]

\* max(rows, key=lambda r: r["avg_score"] or -1): the first row with the greatest key
BestRow(rows) ==
    rows[CHOOSE k \in 1..Len(rows) :
            /\ \A j \in 1..Len(rows) : OrMinusOne(rows[j].avg_score) <= OrMinusOne(rows[k].avg_score)
            /\ \A j \in 1..(k - 1) : OrMinusOne(rows[j].avg_score) < OrMinusOne(rows[k].avg_score)]

\* r["avg_score"] if r["avg_score"] is not None else 9999, in tenths
OrBig(avg) == IF avg = NoneNum THEN 99990 ELSE avg

\* min(rows, key=...): the first row with the least key
WorstRow(rows) ==
    rows[CHOOSE k \in 1..Len(rows) :
            /\ \A j \in 1..Len(rows) : OrBig(rows[j].avg_score) >= OrBig(rows[k].avg_score)
            /\ \A j \in 1..(k - 1) : OrBig(rows[j].avg_score) > OrBig(rows[k].avg_score)]

\* The summary line, when some row has a score. g_avg is kept as the exact mean
\* (sum of the scores in tenths, number of scores) of which one decimal is printed.
SummaryLine(rows) ==
    LET valid == SelectSeq([k \in 1..Len(rows) |-> rows[k].avg_score], LAMBDA x : x # NoneNum)
    IN IF valid # <<>>
       THEN <<[g_avg |-> <<Sum(valid), Len(valid)>>,
               best |-> <<BestRow(rows).topic, BestRow(rows).avg_score>>,
               worst |-> <<WorstRow(rows).topic, WorstRow(rows).avg_score>>]>>
       ELSE <<>>

MsResult(m, rows) ==
    [status |-> "success",
     markdown_table |-> [period |-> <<m.startDate, m.endDate>>,
                         count |-> Len(rows),
                         filter_info |-> <<IF TruthyStr(arguments.brand_filter)
                                           THEN arguments.brand_filter ELSE "",
                                           IF TruthyStr(arguments.market_filter)
                                           THEN arguments.market_filter ELSE "",
                                           IF Truthy(arguments.models)
                                           THEN arguments.models ELSE NoModels>>,
                         lines |-> TableLines(rows),
                         summary |-> SummaryLine(rows)],
     rows |-> rows,
     metadata |-> [startDate |-> m.startDate, endDate |-> m.endDate,
                   models |-> IF Truthy(arguments.models) THEN arguments.models
                              ELSE ModelsString(<<"all (cross-models)">>),
                   topic_count |-> Len(rows)]]

\* The catalog is there: the filters, and the error result when no topic is left.
MsFilter ==
    /\ pc = "gdt_topics"
    /\ gdt.i > Len(gdt.domains)
    /\ name = "get_visibility_monthly_summary"
    /\ LET all_topics == FilterTopics(GdtResult(gdt).data.topics,
                                      arguments.brand_filter, arguments.market_filter) IN
       IF all_topics = <<>>
       THEN /\ Return([status |-> "error",
                       message |-> <<"Aucun topic", arguments.brand_filter, arguments.market_filter>>])
            /\ UNCHANGED ms
       ELSE /\ ms' = [ms EXCEPT !.all_topics = all_topics, !.i = 0]
            /\ pc' = "ms_loop"
            /\ UNCHANGED result
    /\ UNCHANGED <<apiKey, name, arguments, up, requests, gdt, vs, cit>>

\* batch = all_topics[i : i + batch_size]; the coroutines handed to gather
MsBatch ==
    /\ pc = "ms_loop"
    /\ ms.i < Len(ms.all_topics)
    /\ LET batch == SubSeq(ms.all_topics, ms.i + 1, Min(ms.i + batch_size, Len(ms.all_topics))) IN
       ms' = [ms EXCEPT !.tasks = [k \in 1..Len(batch) |-> Task(batch[k])],
                        !.results = [k \in 1..Len(batch) |-> Pending]]
    /\ pc' = "ms_gather"
    /\ UNCHANGED <<apiKey, name, arguments, up, requests, gdt, vs, cit, result>>

\* The event loop runs the next new fetch_one(t) up to its await.
MsStart ==
    /\ pc = "ms_gather"
    /\ \E k \in 1..Len(ms.tasks) :
        /\ ms.tasks[k].state = "new"
        /\ \A j \in 1..(k - 1) : ms.tasks[j].state # "new"
        /\ LET topic == ms.tasks[k].key
               f == fetch_api(VisibilityPath(topic), MsParams(ms), "inflight") IN
           /\ requests' = requests \o f.sent
           /\ IF f.raised = NoException
              THEN /\ ms' = [ms EXCEPT !.tasks[k].state = "inflight",
                                       !.tasks[k].req = Len(requests) + 1]
                   /\ UNCHANGED <<pc, result>>
              ELSE IF fetch_one_except(f.raised)
                   THEN /\ ms' = [ms EXCEPT !.tasks[k].state = "returned",
                                            !.results = gather(@, k, FetchOneFailed(topic, f.raised))]
                        /\ UNCHANGED <<pc, result>>
                   ELSE Raise(f.raised) /\ UNCHANGED ms
    /\ UNCHANGED <<apiKey, name, arguments, up, gdt, vs, cit>>

\* The GET of one fetch_one(t) ends, in any order among those on the wire.
MsSettle ==
    /\ pc = "ms_gather"
    /\ \E k \in 1..Len(ms.tasks), o \in up.outcomes :
        /\ ms.tasks[k].state = "inflight"
        /\ LET topic == ms.tasks[k].key
               e == HttpError(o) IN
           /\ requests' = [requests EXCEPT ![ms.tasks[k].req].outcome = o]
           /\ IF e = NoException
              THEN /\ ms' = [ms EXCEPT !.tasks[k].state = "returned",
                                       !.results = gather(@, k, FetchOneOk(topic))]
                   /\ UNCHANGED <<pc, result>>
              ELSE IF fetch_one_except(e)
                   THEN /\ ms' = [ms EXCEPT !.tasks[k].state = "returned",
                                            !.results = gather(@, k, FetchOneFailed(topic, e))]
                        /\ UNCHANGED <<pc, result>>
                   ELSE Raise(e) /\ UNCHANGED ms
    /\ UNCHANGED <<apiKey, name, arguments, up, gdt, vs, cit>>

\* gather has every value of the batch: all_results.extend(results), then the pause
\* when another batch follows.
MsBatchDone ==
    /\ pc = "ms_gather"
    /\ AllReturned(ms.tasks)
    /\ ms' = [ms EXCEPT !.all_results = @ \o ms.results,
                        !.tasks = <<>>, !.results = <<>>,
                        !.i = IF ms.i + batch_size < Len(ms.all_topics) THEN @ ELSE @ + batch_size]
    /\ pc' = IF ms.i + batch_size < Len(ms.all_topics) THEN "ms_sleep" ELSE "ms_loop"
    /\ UNCHANGED <<apiKey, name, arguments, up, requests, gdt, vs, cit, result>>

\* await asyncio.sleep(0.3) is over: the next value of i
MsSleep ==
    /\ pc = "ms_sleep"
    /\ ms' = [ms EXCEPT !.i = @ + batch_size]
    /\ pc' = "ms_loop"
    /\ UNCHANGED <<apiKey, name, arguments, up, requests, gdt, vs, cit, result>>

\* The rows, their sort, the markdown table and the return to call_tool.
MsReturn ==
    /\ pc = "ms_loop"
    /\ ms.i >= Len(ms.all_topics)
    /\ IF \E k \in 1..Len(ms.all_results) : RowRaises(ms.all_results[k])
       THEN Raise(Exc("AttributeError", "'NoneType' object has no attribute 'get'"))
       ELSE Return(MsResult(ms, SortRows([k \in 1..Len(ms.all_results) |-> RowOf(ms.all_results[k])])))
    /\ UNCHANGED <<apiKey, name, arguments, up, requests, gdt, vs, cit, ms>>

\* ------------------------------------------------------------------ call_tool, the dispatch

DefaultArguments ==
    [domainId |-> 1, topicId |-> 101, startDate |-> None, endDate |-> None,
     models |-> NoModels, brand_filter |-> None, market_filter |-> None, extra |-> FALSE]

\* The if/elif chain of call_tool. tool(**arguments) raises TypeError when the record
\* holds a key that is no parameter of the tool; get_domains_and_topics takes none.
CallTool ==
    /\ pc = "call"
    /\ IF name = "get_domains_and_topics"
       THEN pc' = "gdt_domains" /\ UNCHANGED <<ms, result>>
       ELSE IF name \in ToolNames /\ arguments.extra
       THEN Raise(Exc("TypeError", "got an unexpected keyword argument")) /\ UNCHANGED ms
       ELSE IF name = "get_visibility_scores"
       THEN pc' = "vs_global" /\ UNCHANGED <<ms, result>>
       ELSE IF name = "get_citations"
       THEN pc' = "cit_global" /\ UNCHANGED <<ms, result>>
       ELSE IF name = "get_visibility_monthly_summary"
       THEN LET dates == DefaultDates(arguments.startDate, arguments.endDate, 90) IN
            /\ ms' = [NoMs EXCEPT !.startDate = dates.startDate, !.endDate = dates.endDate]
            /\ pc' = "gdt_domains"
            /\ UNCHANGED result
       ELSE Raise(Exc("ValueError", <<"Unknown tool: ", name>>)) /\ UNCHANGED ms
    /\ UNCHANGED <<apiKey, name, arguments, up, requests, gdt, vs, cit>>

\* ------------------------------------------------------------------ the invocations checked

ScoresUpstreams ==
    {[NoUpstream EXCEPT !.availableModels = am, !.chartData = cd] :
        am \in SeqsUpTo(ModelLabels, MaxModels), cd \in SeqsUpTo(ChartEntries, MaxPoints)}

CitationsUpstreams ==
    {[NoUpstream EXCEPT !.availableModels = am, !.topDomains = td,
                        !.topCitedUrls = uc.topCitedUrls,
                        !.topDomainsOverTime = uc.topDomainsOverTime,
                        !.topUrlsOverTime = uc.topUrlsOverTime] :
        am \in SeqsUpTo(ModelLabels, MaxModels),
        td \in SeqsUpTo(DomainItems, MaxItems),
        uc \in UrlChoices}

\* The reports of the k-th topic of the catalog (in catalog order) under one pattern.
ReportPatterns == {"rising", "zero-or-null", "sparse"}
ReportsFor(pattern, k) ==
    IF pattern = "rising" THEN <<40 + 10 * k>>
    ELSE IF pattern = "zero-or-null" THEN (IF k % 2 = 1 THEN <<NoneNum>> ELSE <<0, 0>>)
    ELSE (IF k % 2 = 1 THEN <<>> ELSE <<70 - 10 * k, 25>>)

TopicIds(u) == Concat([k \in 1..Len(u.topics) |-> [j \in 1..Len(u.topics[k]) |-> u.topics[k][j].id]])

WithReports(u, pattern) ==
    [u EXCEPT !.reports = [k \in 1..Len(TopicIds(u)) |-> <<TopicIds(u)[k], ReportsFor(pattern, k)>>]]

SummaryUpstreams ==
    {WithReports(u, pattern) : u \in Catalogs(2, 2), pattern \in ReportPatterns}

\* A catalog of n topics spread over two domains, for the batches of the summary.
WideCatalog(n) ==
    [NoUpstream EXCEPT
        !.domains = <<DomainRec(1, [displayName |-> "IBIS", name |-> "ibis"]),
                      DomainRec(2, [displayName |-> Absent, name |-> "Mercure"])>>,
        !.topics = <<[j \in 1..((n + 1) \div 2) |-> TopicRec(1, j)],
                     [j \in 1..(n \div 2) |-> TopicRec(2, j)]>>,
        !.outcomes = {"ok", "HTTPStatusError"}]

DateArguments ==
    {[DefaultArguments EXCEPT !.startDate = sd, !.endDate = ed] :
        sd \in {None, "2026-01-01"}, ed \in {None, "2026-01-31"}}

Start(keys, names, ups, args) ==
    /\ apiKey \in keys
    /\ name \in names
    /\ up \in ups
    /\ arguments \in args
    /\ pc = "call"
    /\ requests = <<>>
    /\ gdt = NoGdt
    /\ vs = NoVs
    /\ cit = NoCit
    /\ ms = NoMs
    /\ result = NoResult

CatalogActions == GdtFetchDomains \/ GdtFetchTopics \/ GdtReturn
ScoresActions == VsFetchGlobal \/ VsFetchModel \/ VsReturn
CitationsActions == CitFetchGlobal \/ CitStart \/ CitSettle \/ CitReturn
SummaryActions ==
    \/ GdtFetchDomains \/ GdtFetchTopics \/ MsFilter
    \/ MsBatch \/ MsStart \/ MsSettle \/ MsBatchDone \/ MsSleep \/ MsReturn

\* Catalog resolution over every catalog of at most MaxDomains domains.
InitCatalog ==
    Start({"key"}, {"get_domains_and_topics"},
          UNION {Catalogs(n, MaxTopicsPerDomain) : n \in 0..MaxDomains}, {DefaultArguments})

NextCatalog == CallTool \/ CatalogActions

SpecCatalog == InitCatalog /\ [][NextCatalog]_vars

\* The two per-model tools over every upstream answer within the bounds.
InitModels ==
    \/ Start({"key"}, {"get_visibility_scores"}, ScoresUpstreams, {DefaultArguments})
    \/ Start({"key"}, {"get_citations"}, CitationsUpstreams,
             {[DefaultArguments EXCEPT !.models = m] :
                 m \in {NoModels, ModelsString(<<" sonar-pro", "GLOBAL">>)}})

NextModels == CallTool \/ ScoresActions \/ CitationsActions

SpecModels == InitModels /\ [][NextModels]_vars

\* The summary over catalogs of up to MaxSummaryTopics topics, more than one batch.
InitBatches ==
    Start({"key"}, {"get_visibility_monthly_summary"},
          {WideCatalog(n) : n \in 0..MaxSummaryTopics}, {DefaultArguments})

NextBatches == CallTool \/ SummaryActions

SpecBatches == InitBatches /\ [][NextBatches]_vars

\* The two fan-out tools: every settle order of the per-model and per-topic fetches.
InitFan ==
    \/ Start({"key"}, {"get_citations"}, CitationsUpstreams, {DefaultArguments})
    \/ Start({"key"}, {"get_visibility_monthly_summary"},
             SummaryUpstreams \cup {WideCatalog(MaxSummaryTopics)}, {DefaultArguments})

NextFan == CallTool \/ CitationsActions \/ SummaryActions

SpecFan == InitFan /\ [][NextFan]_vars

\* Every tool against upstreams that list the same model, or the same display name,
\* more than once: the requests the tools send, whatever the answers hold.
ModelsUpstreams ==
    {[NoUpstream EXCEPT !.availableModels = am] : am \in SeqsUpTo(ModelLabels, MaxModels)}

InitFetches ==
    \/ Start({"key"}, {"get_domains_and_topics", "get_visibility_monthly_summary"},
             SummaryUpstreams \cup {WideCatalog(MaxSummaryTopics)}, {DefaultArguments})
    \/ Start({"key"}, {"get_visibility_scores", "get_citations"}, ModelsUpstreams,
             {DefaultArguments})

NextFetches == CallTool \/ CatalogActions \/ ScoresActions \/ CitationsActions \/ SummaryActions

SpecFetches == InitFetches /\ [][NextFetches]_vars

\* Every tool name and argument record, with and without the credential, against
\* two fixed upstreams.
PlainUpstream ==
    [NoUpstream EXCEPT
        !.domains = <<DomainRec(1, [displayName |-> "IBIS", name |-> "ibis"]),
                      DomainRec(2, [displayName |-> Absent, name |-> "Mercure"])>>,
        !.topics = <<<<TopicRec(1, 1), TopicRec(1, 2)>>, <<TopicRec(2, 1)>>>>,
        !.availableModels = <<"gpt-5.1", "sonar-pro">>,
        !.chartData = <<[date |-> "2026-01-13", brand |-> 50,
                         competitors |-> <<<<"Booking", 30>>>>]>>,
        !.topDomains = [k \in 1..1 |-> CHOOSE it \in DomainItems : it.domain # Absent],
        !.topCitedUrls = [k \in 1..1 |-> CHOOSE it \in UrlItems : TRUE]]

MainUpstreams == {WithReports(PlainUpstream, "rising"), WithReports(PlainUpstream, "sparse")}

ModelsArguments == {NoModels, ModelsString(<<"">>), ModelsString(<<"gpt-5.1 ">>)}

Init ==
    \/ Start({"", "key"}, {"get_domains_and_topics", "unknown_tool"}, MainUpstreams,
             {[DefaultArguments EXCEPT !.extra = x] : x \in BOOLEAN})
    \/ Start({"", "key"}, {"get_visibility_scores", "get_citations"}, MainUpstreams,
             {[a EXCEPT !.models = m, !.extra = x] :
                 a \in DateArguments, m \in ModelsArguments, x \in BOOLEAN})
    \/ Start({"", "key"}, {"get_visibility_monthly_summary"}, MainUpstreams,
             {[a EXCEPT !.models = m, !.extra = x, !.brand_filter = b, !.market_filter = k] :
                 a \in DateArguments, m \in ModelsArguments, x \in BOOLEAN,
                 b \in {None, "ibis"}, k \in {None, "", "fr"}})
    \/ Start({"key"}, {"get_visibility_monthly_summary"}, {WideCatalog(MaxSummaryTopics)},
             {DefaultArguments})

Next == CallTool \/ CatalogActions \/ ScoresActions \/ CitationsActions \/ SummaryActions

Spec == Init /\ [][Next]_vars

\* ------------------------------------------------------------------ what the invocation shows

Done == pc = "done"

\* call_tool returned one text payload that is the JSON of a tool result / an error text.
ReturnedJson ==
    /\ result.done /\ Len(result.returned) = 1
    /\ "json" \in DOMAIN result.returned[1].text
ReturnedError ==
    /\ result.done /\ Len(result.returned) = 1
    /\ "error" \in DOMAIN result.returned[1].text
Res == result.returned[1].text.json

Sent(ep) == SelectSeq(requests, LAMBDA r : r.path.ep = ep)
TopicsEp == "/domains/{d_id}/topics"
AggregatedEp == "/domains/{domainId}/topics/{topicId}/visibility/aggregated"
VisibilityEp == "/domains/{domainId}/topics/{id}/visibility"

\* The first GET of the invocation was sent and answered 2xx / failed.
FirstFetchOk == requests # <<>> /\ requests[1].outcome = "ok"
FirstFetchFailed == requests # <<>> /\ requests[1].outcome \in HttpFailures

\* ------------------------------------------------------------------ C1

\* The topic fetch of the k-th upstream domain was answered 2xx.
TopicFetchOk(k) ==
    \E r \in Range(Sent(TopicsEp)) : r.path.domainId = up.domains[k].id /\ r.outcome = "ok"
TopicFetchFailed(k) ==
    \E r \in Range(Sent(TopicsEp)) : r.path.domainId = up.domains[k].id /\ r.outcome \in HttpFailures

\* The topics of the domains whose topic fetch succeeded, in domain order.
TopicsOfSucceeded ==
    Concat([k \in 1..Len(up.domains) |->
        IF TopicFetchOk(k)
        THEN [j \in 1..Len(up.topics[k]) |->
                [id |-> up.topics[k][j].id, name |-> DisplayName(up.topics[k][j]),
                 domainId |-> up.domains[k].id, domainName |-> DisplayName(up.domains[k])]]
        ELSE <<>>])

\* C1: when the /domains fetch succeeds, get_domains_and_topics returns status
\* "success" whatever subset of the per-domain topic fetches fails; the returned topics
\* are exactly the topics of the domains whose topic fetch succeeded, in domain order,
\* and a domain whose topic fetch failed has no topic and no mapping entry.
C1_CatalogSurvivesDomainFailure ==
    (name = "get_domains_and_topics" /\ Done /\ FirstFetchOk) =>
        /\ ReturnedJson
        /\ Res.status = "success"
        /\ Res.data.domains = up.domains
        /\ Res.data.topics = TopicsOfSucceeded
        /\ \A k \in 1..Len(up.domains) :
              TopicFetchFailed(k) =>
                 /\ \A t \in Range(Res.data.topics) : t.domainId # up.domains[k].id
                 /\ \A e \in Range(Res.data.mapping) : e[2].domainId # up.domains[k].id

\* Three domains with topics; the topic fetch of the second failed, the others did not.
C1_Witness ==
    /\ name = "get_domains_and_topics" /\ Done /\ ReturnedJson
    /\ Len(up.domains) = 3
    /\ \A k \in 1..3 : Len(up.topics[k]) > 0
    /\ TopicFetchOk(1) /\ TopicFetchFailed(2) /\ TopicFetchOk(3)
    /\ Len(Res.data.topics) = Len(up.topics[1]) + Len(up.topics[3])

\* ------------------------------------------------------------------ C2

PerModelTools == {"get_visibility_scores", "get_citations"}

\* C2: in get_visibility_scores and get_citations, when the first (GLOBAL) fetch
\* fails no further fetch is sent, and call_tool returns an error text: no result
\* record, hence no dataset row, is returned.
C2_RequiredFetchFatal ==
    (name \in PerModelTools /\ FirstFetchFailed) =>
        /\ Len(requests) = 1
        /\ Done
        /\ ReturnedError

\* The GLOBAL fetch of get_visibility_scores failed although upstream has models and rows.
C2_Witness ==
    /\ name = "get_visibility_scores" /\ FirstFetchFailed /\ Done
    /\ up.availableModels # <<>> /\ up.chartData # <<>>
    /\ ReturnedError

\* ------------------------------------------------------------------ C3

\* Some fetch whose rows carry `label` was answered 2xx: the unfiltered fetch for
\* "GLOBAL", a models=label fetch for a model.
FetchSucceeded(label) ==
    \/ label = "GLOBAL" /\ FirstFetchOk
    \/ \E k \in 2..Len(requests) : requests[k].params.models = label /\ requests[k].outcome = "ok"

ModelFetchSucceeded(m) ==
    \E k \in 2..Len(requests) : requests[k].params.models = m /\ requests[k].outcome = "ok"

ModelFetchFailed(m) ==
    \E k \in 2..Len(requests) : requests[k].params.models = m /\ requests[k].outcome \in HttpFailures

\* The rows one answer stands for, as a set: one Brand row per chartData entry and
\* one Competitor row per competitor of the entry.
RowsOfAnswer(label) ==
    LET chart == ModelData(label).chartData IN
    {[Date |-> chart[k].date, EntityName |-> "Brand", EntityType |-> "Brand",
      Score |-> chart[k].brand, Model |-> label] : k \in 1..Len(chart)}
    \cup UNION {{[Date |-> chart[k].date, EntityName |-> chart[k].competitors[j][1],
                  EntityType |-> "Competitor", Score |-> chart[k].competitors[j][2],
                  Model |-> label] : j \in 1..Len(chart[k].competitors)} : k \in 1..Len(chart)}

\* The entries of the five lists of get_citations that one answer stands for.
CitationsOfAnswer(data, label) ==
    [top_domains |-> {[Model |-> label,
                       Domain |-> Get2(data.topDomains[i].domain, data.topDomains[i].linkDomain, Absent, ""),
                       CitationCount |-> Get2(data.topDomains[i].count,
                                              data.topDomains[i].citationCount, AbsentNum, 0),
                       Rank |-> i] : i \in 1..Len(data.topDomains)},
     top_urls |-> {[Model |-> label, Url |-> data.topCitedUrls[i].url,
                    Domain |-> data.topCitedUrls[i].domain,
                    CitationCount |-> data.topCitedUrls[i].count,
                    Rank |-> i] : i \in 1..Len(data.topCitedUrls)},
     domains_over_time |-> Range(ExtractDomainsOt(data, label)),
     urls_over_time |-> Range(ExtractUrlsOt(data, label)),
     global_metrics |-> {[Model |-> label, TotalPrompts |-> 10, TotalAnswers |-> 20,
                          TotalCitations |-> data.totalCitations, ReportCount |-> 0]}]

CitationLists == {"top_domains", "top_urls", "domains_over_time", "urls_over_time", "global_metrics"}

\* C3: in get_visibility_scores and get_citations, when the GLOBAL fetch succeeds
\* the invocation returns status "success" whatever subset of the per-model fetches
\* fails; the result holds the rows of GLOBAL and of every model whose fetch
\* succeeded, and every row it holds is labelled GLOBAL or with a model for which a
\* fetch succeeded (a model all of whose fetches failed labels no row).
C3_ModelFailureOmitted ==
    (name \in PerModelTools /\ Done /\ FirstFetchOk) =>
        /\ ReturnedJson
        /\ Res.status = "success"
        /\ name = "get_visibility_scores" =>
              /\ \A label \in ModelLabels :
                    FetchSucceeded(label) => RowsOfAnswer(label) \subseteq Range(Res.data.dataset)
              /\ \A row \in Range(Res.data.dataset) : FetchSucceeded(row.Model)
        /\ name = "get_citations" =>
              \A list \in CitationLists :
                 /\ \A label \in ModelLabels :
                       FetchSucceeded(label) =>
                          CitationsOfAnswer(ModelData(label), label)[list] \subseteq Range(Res.data[list])
                 /\ \A row \in Range(Res.data[list]) : FetchSucceeded(row.Model)

\* get_citations returned although the fetch of one of two models failed: the other
\* model has entries, the failed one none.
C3_Witness ==
    /\ name = "get_citations" /\ Done /\ ReturnedJson
    /\ up.availableModels = <<"gpt-5.1", "sonar-pro">>
    /\ ModelFetchFailed("gpt-5.1") /\ ModelFetchSucceeded("sonar-pro")
    /\ \E row \in Range(Res.data.top_domains) : row.Model = "sonar-pro"
    /\ \A row \in Range(Res.data.global_metrics) : row.Model # "gpt-5.1"

\* ------------------------------------------------------------------ C4

\* The dispatched tool ended by raising: an unknown name, an argument record the tool
\* does not take, a missing credential, a failed required fetch, or a gathered
\* /visibility result that holds neither data nor an error text.
ToolRaised ==
    \/ name \notin ToolNames
    \/ name # "get_domains_and_topics" /\ arguments.extra
    \/ apiKey = ""
    \/ FirstFetchFailed
    \/ \E r \in Range(Sent(VisibilityEp)) : HttpError(r.outcome) = Exc(r.outcome, "")

\* C4: call_tool never lets an exception out: whatever the tool name, the argument
\* record and the failure inside the dispatched tool, call_tool returns exactly one
\* text payload, an "Error: <message>" text when the tool raised and the JSON of the
\* tool's result otherwise; nothing is returned before the invocation ends.
C4_CallToolNeverRaises ==
    /\ result.raised = NoException
    /\ result.done <=> Done
    /\ ~Done => result.returned = <<>>
    /\ Done =>
        /\ Len(result.returned) = 1
        /\ result.returned[1].type = "text"
        /\ IF ToolRaised
           THEN /\ ReturnedError
                /\ result.returned[1].text.error[1] = "Error: "
           ELSE ReturnedJson

\* An upstream HTTP error inside get_citations came back as an error text.
C4_Witness ==
    /\ name = "get_citations" /\ apiKey # "" /\ ~arguments.extra
    /\ requests # <<>> /\ requests[1].outcome = "HTTPStatusError"
    /\ Done /\ ReturnedError
    /\ result.returned[1].text.error = <<"Error: ", "Server error '500' for url">>

\* ------------------------------------------------------------------ C5

RECURSIVE Distinct(_)
Distinct(seq) ==
    IF seq = <<>> THEN <<>>
    ELSE LET rest == Distinct(SubSeq(seq, 1, Len(seq) - 1))
             last == seq[Len(seq)]
         IN IF last \in Range(rest) THEN rest ELSE Append(rest, last)

\* The models of the per-model fetches answered 2xx, each once, in the order sent.
SucceededModels ==
    Distinct([k \in 1..Len(SelectSeq(Tail(requests), LAMBDA r : r.outcome = "ok")) |->
                SelectSeq(Tail(requests), LAMBDA r : r.outcome = "ok")[k].params.models])

\* The models get_citations asks for: the available ones that pass the models filter.
RequestedModels == FilterModels(up.availableModels, arguments.models)

Labels(list) == [k \in 1..Len(list) |-> list[k].Model]

\* The number of entries extract makes of one answer for each of the five lists.
GroupSize(data, list) ==
    IF list = "top_domains" THEN Len(data.topDomains)
    ELSE IF list = "top_urls" THEN Len(data.topCitedUrls)
    ELSE IF list = "domains_over_time"
         THEN Sum([e \in 1..Len(data.topDomainsOverTime) |-> Len(data.topDomainsOverTime[e].domains)])
    ELSE IF list = "urls_over_time"
         THEN Sum([e \in 1..Len(data.topUrlsOverTime) |-> Len(data.topUrlsOverTime[e].urls)])
    ELSE 1

\* Where the group of the g-th answer starts in a list: after the GLOBAL group and the
\* groups of the answers before it.
GroupStart(models, g, list) ==
    GroupSize(ModelData("GLOBAL"), list)
    + Sum([h \in 1..(g - 1) |-> GroupSize(ModelData(models[h]), list)])

\* The ranked item a top_domains or top_urls entry names.
RankedItem(list, row) == IF list = "top_domains" THEN row.Domain ELSE row.Url
UpstreamItem(list, data, i) ==
    IF list = "top_domains"
    THEN Get2(data.topDomains[i].domain, data.topDomains[i].linkDomain, Absent, "")
    ELSE Get2(data.topCitedUrls[i].url, data.topCitedUrls[i].link, Absent, "")

\* The sequence `list` of the result is the group of the GLOBAL answer followed by the
\* groups of `models` in order, each labelled with its model; in the ranked lists the
\* i-th entry of a group has Rank i and names the i-th upstream item.
GroupedBy(models, list) ==
    LET rows == Res.data[list]
        answers == <<"GLOBAL">> \o models
    IN /\ Len(rows) = GroupStart(models, Len(models) + 1, list)
       /\ \A g \in 1..Len(answers) :
             LET data == ModelData(answers[g])
                 start == IF g = 1 THEN 0 ELSE GroupStart(models, g - 1, list)
             IN \A i \in 1..GroupSize(data, list) :
                   /\ rows[start + i].Model = answers[g]
                   /\ list \in {"top_domains", "top_urls"} =>
                         /\ rows[start + i].Rank = i
                         /\ RankedItem(list, rows[start + i]) = UpstreamItem(list, data, i)

\* C5 as stated: in each sequence returned by get_citations the GLOBAL entries come
\* first, the entries of one model are contiguous, every requested model has its
\* group, and in top_domains and top_urls the ranks of each model are 1..n in upstream
\* order.
C5_GroupPerRequestedModel ==
    (name = "get_citations" /\ Done /\ ReturnedJson) =>
        \A list \in CitationLists : GroupedBy(Distinct(RequestedModels), list)

\* C5, amended: in each sequence returned by get_citations the entries of the GLOBAL
\* answer come first, followed by one contiguous group per distinct requested model
\* whose fetch succeeded, in the order of availableModels, and by nothing else (a model
\* whose fetch failed has no group); in top_domains and top_urls the ranks of each
\* group are 1..n in the order the upstream answer listed the items, whatever the
\* ranks of the other groups.
C5_GroupPerSucceededModel ==
    (name = "get_citations" /\ Done /\ ReturnedJson) =>
        \A list \in CitationLists : GroupedBy(SucceededModels, list)

\* Two models with ranked lists of different lengths, both fetched, after a GLOBAL list
\* of two items.
C5_Witness ==
    /\ name = "get_citations" /\ Done /\ ReturnedJson
    /\ SucceededModels = <<"sonar-pro", "gpt-5.1">>
    /\ Len(up.topDomains) = 2 /\ up.topDomains[1] # up.topDomains[2]
    /\ [k \in 1..Len(Res.data.top_domains) |-> Res.data.top_domains[k].Rank] = <<1, 2, 1, 1, 2>>
    /\ Labels(Res.data.top_domains) = <<"GLOBAL", "GLOBAL", "sonar-pro", "gpt-5.1", "gpt-5.1">>

\* ------------------------------------------------------------------ C6, C7

ScoresReturned == name = "get_visibility_scores" /\ Done /\ ReturnedJson

\* C6: in the dataset of get_visibility_scores every (Date, Model) pair that occurs
\* has exactly one row of kind Brand, whatever the upstream answer (repeated dates,
\* repeated or "GLOBAL" entries of availableModels included).
C6_OneBrandRowPerDateModel ==
    ScoresReturned =>
        \A row \in Range(Res.data.dataset) :
            Cardinality({k \in 1..Len(Res.data.dataset) :
                            /\ Res.data.dataset[k].EntityType = "Brand"
                            /\ Res.data.dataset[k].Date = row.Date
                            /\ Res.data.dataset[k].Model = row.Model}) = 1

\* C7: every Competitor row of the dataset of get_visibility_scores has a strictly
\* positive Score: a competitor whose score at a time point is zero or negative has
\* no row for that date and model.
C7_CompetitorScoresPositive ==
    ScoresReturned =>
        \A row \in Range(Res.data.dataset) :
            row.EntityType = "Competitor" => row.Score > 0

\* ------------------------------------------------------------------ C8

InFlight == {k \in 1..Len(requests) : requests[k].outcome = "inflight"}

\* The batch of a /visibility request: its topic's place in the filtered topics, by eights.
TopicPlace(r) ==
    CHOOSE k \in 1..Len(ms.all_topics) :
        ms.all_topics[k].id = r.path.topicId /\ ms.all_topics[k].domainId = r.path.domainId
BatchOf(r) == (TopicPlace(r) - 1) \div 8

\* C8: during get_visibility_monthly_summary at most 8 per-topic /visibility fetches
\* are started and not yet settled, for any number of topics, and no fetch of a later
\* batch is started while a fetch of an earlier batch is unsettled.
C8_AtMostEightInFlight ==
    name = "get_visibility_monthly_summary" =>
        /\ Cardinality(InFlight) <= 8
        /\ \A i, j \in 1..Len(requests) :
              (requests[i].path.ep = VisibilityEp /\ requests[j].path.ep = VisibilityEp
                 /\ BatchOf(requests[i]) < BatchOf(requests[j]))
              => requests[i].outcome # "inflight"

\* More than eight topics: the ninth fetch is on the wire, the first eight have settled.
C8_Witness ==
    /\ name = "get_visibility_monthly_summary"
    /\ Len(ms.all_topics) > 8
    /\ Len(Sent(VisibilityEp)) = 9
    /\ Sent(VisibilityEp)[9].outcome = "inflight"
    /\ \A k \in 1..8 : Sent(VisibilityEp)[k].outcome # "inflight"

\* ------------------------------------------------------------------ C9

\* What the fetch for one model or topic ended in, read off the request log.
OutcomeOfModelFetch(k) == Tail(requests)[k].outcome
OutcomeOfTopicFetch(topic) ==
    (CHOOSE r \in Range(Sent(VisibilityEp)) :
        r.path.topicId = topic.id /\ r.path.domainId = topic.domainId).outcome

\* The value fetch_model / fetch_one returns for an outcome.
ModelResultFor(m, outcome) == <<m, IF outcome = "ok" THEN ModelData(m) ELSE NoneValue>>
TopicResultFor(topic, outcome) ==
    IF outcome = "ok" THEN FetchOneOk(topic) ELSE FetchOneFailed(topic, HttpError(outcome))

\* The topics the summary fetches: the catalog's, in domain order (no filter is given).
SummaryTopics == FilterTopics(TopicsOfSucceeded, arguments.brand_filter, arguments.market_filter)

\* C9: in get_citations (per model) and get_visibility_monthly_summary (per topic),
\* whatever the order in which the concurrent fetches settle: the gathered values are
\* processed only once every fetch issued has settled; each fetch's outcome is held
\* exactly once, at the place of its own model or topic; and the result returned is the
\* one these outcomes determine, the same for every settle order.
C9_FanInIndependentOfOrder ==
    /\ (name = "get_citations" /\ Done /\ FirstFetchOk) =>
          /\ InFlight = {}
          /\ Len(cit.model_results) = Len(RequestedModels)
          /\ \A k \in 1..Len(RequestedModels) :
                cit.model_results[k] = ModelResultFor(RequestedModels[k], OutcomeOfModelFetch(k))
          /\ ReturnedJson
          /\ \A list \in CitationLists : GroupedBy(SucceededModels, list)
          /\ Res.data.metadata.models = <<"GLOBAL">> \o SucceededModels
    /\ name = "get_visibility_monthly_summary" =>
          /\ \A k \in 1..Len(ms.all_results) :
                /\ ms.all_results[k].topic = SummaryTopics[k]
                /\ ms.all_results[k] = TopicResultFor(SummaryTopics[k], OutcomeOfTopicFetch(SummaryTopics[k]))
          /\ (Done /\ FirstFetchOk /\ SummaryTopics # <<>>) =>
                /\ InFlight = {}
                /\ Len(ms.all_results) = Len(SummaryTopics)
                /\ IF \E k \in 1..Len(SummaryTopics) :
                         HttpError(OutcomeOfTopicFetch(SummaryTopics[k])) = Exc("TimeoutException", "")
                   THEN ReturnedError
                   ELSE /\ ReturnedJson
                        /\ Res.rows = SortRows([k \in 1..Len(SummaryTopics) |->
                              RowOf(TopicResultFor(SummaryTopics[k],
                                                   OutcomeOfTopicFetch(SummaryTopics[k])))])

\* The fetch of the second model settled before the fetch of the first, which is
\* still on the wire: the second value is already in its own place.
C9_Witness ==
    /\ name = "get_citations" /\ pc = "cit_gather"
    /\ Len(cit.tasks) = 2 /\ cit.tasks[1].key # cit.tasks[2].key
    /\ cit.tasks[1].state = "inflight" /\ cit.tasks[2].state = "returned"
    /\ cit.model_results[1] = Pending
    /\ cit.model_results[2] = <<cit.tasks[2].key, ModelData(cit.tasks[2].key)>>

\* ------------------------------------------------------------------ C10

\* call_tool dispatches to a tool, which is entered with these arguments.
ToolEntered == name \in ToolNames /\ (name = "get_domains_and_topics" \/ ~arguments.extra)

\* C10: without a credential fetch_api raises the configuration error before any HTTP
\* request is sent: no tool invoked with an empty MINT_API_KEY ever sends a request,
\* the invocation never gets past the tool's first fetch, and it ends with that error.
C10_NoCredentialNoRequest ==
    apiKey = "" =>
        /\ requests = <<>>
        /\ pc \in {"call", "gdt_domains", "vs_global", "cit_global", "done"}
        /\ (Done /\ ToolEntered) =>
              /\ ReturnedError
              /\ result.returned[1].text.error[2] = "MINT_API_KEY environment variable is required"

\* get_visibility_monthly_summary was invoked without a credential and has ended.
C10_Witness ==
    /\ apiKey = "" /\ name = "get_visibility_monthly_summary" /\ ~arguments.extra
    /\ Done /\ ReturnedError /\ requests = <<>>
    /\ up.domains # <<>>

\* ------------------------------------------------------------------ C11

Occurrences(seq, x) == Cardinality({k \in 1..Len(seq) : seq[k] = x})

SameFetch(r, q) == r.path = q.path /\ r.params = q.params

\* How many times the running tool asks for the fetch of request r: once for /domains
\* and for the unfiltered answer, once per entry of the list it walks otherwise.
TimesAsked(r) ==
    IF r.path.ep = "/domains" THEN 1
    ELSE IF r.path.ep = TopicsEp
    THEN Occurrences([k \in 1..Len(gdt.domains) |-> gdt.domains[k].id], r.path.domainId)
    ELSE IF r.path.ep = AggregatedEp
    THEN (IF r.params.models = Absent THEN 1
          ELSE IF name = "get_visibility_scores"
          THEN Occurrences(vs.available_models, r.params.models)
          ELSE Occurrences(cit.available_models, r.params.models))
    ELSE Occurrences([k \in 1..Len(ms.all_topics) |-> ms.all_topics[k].id], r.path.topicId)

\* C11 as stated: within one invocation, a fetch that failed is never issued again for
\* the same path and query parameters.
C11_FailedFetchNeverReissued ==
    \A i \in 1..Len(requests), j \in 1..Len(requests) :
        (i < j /\ requests[i].outcome \in HttpFailures) => ~SameFetch(requests[i], requests[j])

\* C11 amended: no request is retried -- the GETs sent for one path and its query
\* parameters are never more than the times the tool asks for that fetch (once per
\* entry of the list it walks), whether or not any of them failed.
C11_NoRetry ==
    \A i \in 1..Len(requests) :
        Cardinality({j \in 1..Len(requests) : SameFetch(requests[i], requests[j])})
            <= TimesAsked(requests[i])

C11_Witness ==
    /\ name = "get_visibility_scores" /\ Done /\ ReturnedJson
    /\ vs.available_models = <<"gpt-5.1", "sonar-pro">>
    /\ Len(requests) = 3
    /\ requests[2].outcome \in HttpFailures
    /\ requests[3].outcome = "ok"
    /\ C11_NoRetry

\* ------------------------------------------------------------------ C12

\* The models the per-model GETs of the invocation ask for.
QueriedModels ==
    {requests[k].params.models : k \in {j \in 1..Len(requests) :
                                           /\ requests[j].path.ep = AggregatedEp
                                           /\ requests[j].params.models # Absent}}

\* C12: the models argument of get_visibility_scores restricts the models queried --
\* when it is supplied, per-model fetches go only to the listed models and the
\* dataset has no row of a model that was not listed; when it is omitted, every
\* available model is queried.
C12_ModelsArgumentRestricts ==
    name = "get_visibility_scores" =>
        IF Truthy(arguments.models)
        THEN /\ QueriedModels \subseteq Range(Requested(arguments.models))
             /\ (Done /\ ReturnedJson) =>
                    \A row \in Range(Res.data.dataset) :
                        row.Model \in {"GLOBAL"} \cup Range(Requested(arguments.models))
        ELSE (Done /\ ReturnedJson) => QueriedModels = Range(vs.available_models)

\* ------------------------------------------------------------------ C13

\* C13: metadata.models of get_visibility_scores and of get_citations is "GLOBAL"
\* followed by exactly the models whose per-model fetch succeeded, and holds no
\* label of a model whose fetch failed.
C13_MetadataListsSucceededModels ==
    (name \in PerModelTools /\ Done /\ ReturnedJson) =>
        Res.data.metadata.models = <<"GLOBAL">> \o SucceededModels

\* ------------------------------------------------------------------ C14

\* get_visibility_monthly_summary handed back its table.
SummaryReturned ==
    /\ name = "get_visibility_monthly_summary" /\ Done /\ ReturnedJson
    /\ Res.status = "success"

\* C14: the rows of get_visibility_monthly_summary, and the lines of the markdown
\* table, are sorted by brand ascending and within a brand by average score
\* descending, every row without a score after every row of its brand that has
\* one, a score of 0 included.
C14_RowsSortedScoredFirst ==
    SummaryReturned =>
        /\ \A i \in 1..Len(Res.rows), j \in 1..Len(Res.rows) :
                i < j =>
                    /\ StrRank(Res.rows[i].brand) <= StrRank(Res.rows[j].brand)
                    /\ (Res.rows[i].brand = Res.rows[j].brand /\ Res.rows[j].avg_score # NoneNum) =>
                            /\ Res.rows[i].avg_score # NoneNum
                            /\ Res.rows[i].avg_score >= Res.rows[j].avg_score
        /\ [k \in 1..Len(Res.rows) |-> Res.rows[k].topic]
               = [k \in 1..Len(Res.markdown_table.lines) |-> Res.markdown_table.lines[k].topic]

\* ------------------------------------------------------------------ C15

\* The rows before the k-th that belong to its series: same model, same entity.
EarlierOfSeries(dataset, k) ==
    {j \in 1..(k - 1) : /\ dataset[j].Model = dataset[k].Model
                        /\ dataset[j].EntityName = dataset[k].EntityName}

\* C15: in the rows of get_visibility_scores the first time point of every entity
\* series carries no variation, and every later point carries a variation equal to
\* its score minus the score of the point before it (scores are whole numbers here,
\* so the rounding to 2 decimals changes nothing).
C15_VariationOfSeries ==
    ScoresReturned =>
        \A k \in 1..Len(Res.data.dataset) :
            LET row == Res.data.dataset[k]
                earlier == EarlierOfSeries(Res.data.dataset, k)
            IN IF earlier = {}
               THEN "Variation" \notin DOMAIN row
               ELSE /\ "Variation" \in DOMAIN row
                    /\ row.Variation =
                          row.Score - Res.data.dataset[CHOOSE j \in earlier :
                                                          \A h \in earlier : h <= j].Score

\* ------------------------------------------------------------------ C16

\* The topics that passed the filters were fetched and the invocation is over.
SummaryOver ==
    /\ name = "get_visibility_monthly_summary" /\ Done
    /\ ms.all_topics # <<>>

HowMany(seq, Test(_)) == Cardinality({k \in 1..Len(seq) : Test(seq[k])})

\* C16: get_visibility_monthly_summary yields exactly one row per topic that passed
\* the filters, whether its fetch succeeded or failed: as many rows per (brand,
\* topic) name as filtered topics, one failed row (no score, 0 data points, a
\* non-empty error) per failed fetch, one row without error per fetch answered,
\* and metadata.topic_count is the number of filtered topics.
C16_OneRowPerFilteredTopic ==
    SummaryOver =>
        /\ SummaryReturned
        /\ Len(Res.rows) = Len(ms.all_topics)
        /\ Res.metadata.topic_count = Len(ms.all_topics)
        /\ \A t \in Range(ms.all_topics) :
              HowMany(Res.rows, LAMBDA r : r.brand = t.domainName /\ r.topic = t.name)
                = HowMany(ms.all_topics, LAMBDA u : u.domainName = t.domainName /\ u.name = t.name)
        /\ HowMany(Res.rows, LAMBDA r : r.error # None)
              = HowMany(Sent(VisibilityEp), LAMBDA q : q.outcome \in HttpFailures)
        /\ HowMany(Res.rows, LAMBDA r : r.error = None)
              = HowMany(Sent(VisibilityEp), LAMBDA q : q.outcome = "ok")
        /\ \A r \in Range(Res.rows) :
              r.error # None => r.avg_score = NoneNum /\ r.data_points = 0 /\ r.error # ""

\* ------------------------------------------------------------------ C17

\* The scores of the rows that have one.
ScoresOfRows == {Res.rows[k].avg_score : k \in {j \in 1..Len(Res.rows) : Res.rows[j].avg_score # NoneNum}}

\* C17: when some row of get_visibility_monthly_summary has a score, the summary
\* line names as best a row whose score is the greatest of the scored rows and as
\* worst a row whose score is the least; a row without a score is never the best
\* or the worst, also when the only scores are 0.
C17_BestAndWorstAreScored ==
    (SummaryReturned /\ ScoresOfRows # {}) =>
        /\ Len(Res.markdown_table.summary) = 1
        /\ LET line == Res.markdown_table.summary[1] IN
           /\ line.best[2] # NoneNum
           /\ \A x \in ScoresOfRows : x <= line.best[2]
           /\ \E r \in Range(Res.rows) : r.topic = line.best[1] /\ r.avg_score = line.best[2]
           /\ line.worst[2] # NoneNum
           /\ \A x \in ScoresOfRows : x >= line.worst[2]
           /\ \E r \in Range(Res.rows) : r.topic = line.worst[1] /\ r.avg_score = line.worst[2]

\* ------------------------------------------------------------------ C18

DatedTools == {"get_visibility_scores", "get_citations", "get_visibility_monthly_summary"}

\* The requests that carry a period: all but those to the catalog endpoints.
DatedRequests == SelectSeq(requests, LAMBDA r : r.params.kind # "plain")

\* C18: in the three tools that take a period, a startDate (an endDate) the caller
\* supplied is the startDate (endDate) of every request that carries one; the
\* default stands in only for a date the caller left out.
C18_SuppliedDateIsSent ==
    name \in DatedTools =>
        \A r \in Range(DatedRequests) :
            /\ arguments.startDate # None => r.params.startDate = arguments.startDate
            /\ arguments.endDate # None => r.params.endDate = arguments.endDate
            /\ arguments.startDate = None =>
                  r.params.startDate = DaysBefore(IF name = "get_visibility_scores" THEN 365 ELSE 90)
            /\ arguments.endDate = None => r.params.endDate = Today

\* ------------------------------------------------------------------ C19

\* C19: every topic of data.topics in the result of get_domains_and_topics is
\* resolvable through data.mapping -- the entry under "<domainName> > <topicName>"
\* exists and holds the domainId and topicId of that topic, also when two domains
\* or two topics share a display name.
C19_EveryTopicResolvable ==
    (name = "get_domains_and_topics" /\ Done /\ ReturnedJson) =>
        \A t \in Range(Res.data.topics) :
            /\ DictHas(Res.data.mapping, MappingKey(t.domainName, t.name))
            /\ DictGet(Res.data.mapping, MappingKey(t.domainName, t.name))
                  = [domainId |-> t.domainId, topicId |-> t.id]
====
